---- MODULE Spec2Model ----
(***************************************************************************)
(* Model of kats/transformers/t2v/t2vpreprocessing.py: the class           *)
(* T2VPreprocessing, its constructor and its transform() method.           *)
(*                                                                         *)
(* One instance is followed from the constructor call through up to        *)
(* MaxCalls calls of transform().  A Python exception is an outcome record *)
(* with kind = "raise".  numpy arrays are sequences; a [n, 1] array is a   *)
(* sequence of n one-element sequences.  None is an option record with     *)
(* some = FALSE.                                                           *)
(***************************************************************************)
EXTENDS Integers, Sequences, FiniteSets, TLC

\* ---------------------------------------------------------------- bounds
MaxSeries == 2
MaxLen == 3
MaxLabels == 2
MaxOut == 4
MaxCalls == 2

\* ---------------------------------------------------------------- inputs
Modes == {"classification", "regression"}

\* param.normalizer: None, or a caller-supplied function on arrays.
Normalizers == {"None", "shift"}

\* The runtime types a label can have, and the labels the lists are built from.
LabelPool ==
    { [ty |-> "int", v |-> 0],
      [ty |-> "int64", v |-> 2],
      [ty |-> "int32", v |-> 1],
      [ty |-> "float", v |-> 1] }

\* The t-th value of the i-th input series: all values distinct.
ValueAt(i, t) == 10 * i + t

SeriesOfLen(i, n) == [t \in 1..n |-> ValueAt(i, t)]

SeqsUpTo(S, n) == UNION { [1..k -> S] : k \in 0..n }

DataSets ==
    { [i \in 1..Len(ls) |-> SeriesOfLen(i, ls[i])] : ls \in SeqsUpTo(1..MaxLen, MaxSeries) }

None == [some |-> FALSE, val |-> <<>>]
Some(x) == [some |-> TRUE, val |-> x]

LabelArgs == {None} \cup { Some(l) : l \in SeqsUpTo(LabelPool, MaxLabels) }

Params ==
    [mode : Modes, normalizer : Normalizers, training_output_size : 1..MaxOut]

VARIABLES args, pc, self, calls

vars == <<args, pc, self, calls>>

\* ---------------------------------------------------------------- numpy / Python helpers
PyInt(n) == [ty |-> "int", v |-> n]

\* np.max(label): raises on an empty list; the result type is the promoted type.
NpMaxRaises(l) == Len(l) = 0

NpMaxType(l) ==
    IF \E i \in DOMAIN l : l[i].ty = "float" THEN "float64"
    ELSE IF \A i \in DOMAIN l : l[i].ty = "int32" THEN "int32"
    ELSE "int64"

NpMaxValue(l) ==
    CHOOSE m \in { l[i].v : i \in DOMAIN l } : \A i \in DOMAIN l : l[i].v <= m

\* Python slice bound: a negative index counts from the end, then is clamped.
PyIndex(i, n) ==
    IF i < 0 THEN (IF i + n < 0 THEN 0 ELSE i + n)
    ELSE (IF i > n THEN n ELSE i)

\* values[:end]
SliceTo(values, end) == SubSeq(values, 1, PyIndex(end, Len(values)))

\* values[end:]
SliceFrom(values, end) == SubSeq(values, PyIndex(end, Len(values)) + 1, Len(values))

\* param.normalizer(arr): elementwise, same length.
Normalize(name, arr) ==
    IF name = "None" THEN arr ELSE [t \in 1..Len(arr) |-> arr[t] + 100]

\* seq.reshape([window, 1]): a negative dimension is inferred from the size.
ReshapeFails(arr, window) == window >= 0 /\ window # Len(arr)

Reshape(arr) == [t \in 1..Len(arr) |-> <<arr[t]>>]

\* ---------------------------------------------------------------- __init__
InitRaises(a) ==
    a.label.some /\ a.param.mode = "classification" /\ NpMaxRaises(a.label.val)

OutputSize(a) ==
    IF a.label.some /\ a.param.mode = "classification"
    THEN [ty |-> NpMaxType(a.label.val), v |-> NpMaxValue(a.label.val) + 1]
    ELSE PyInt(a.param.training_output_size)

NoInstance ==
    [data |-> <<>>, param |-> [mode |-> "regression", normalizer |-> "None",
                               training_output_size |-> 1],
     dummy_label |-> FALSE, label |-> None, mode |-> "regression",
     output_size |-> PyInt(1), window |-> None]

NewInstance(a) ==
    [data |-> a.data, param |-> a.param, dummy_label |-> a.dummy_label,
     label |-> a.label, mode |-> a.param.mode, output_size |-> OutputSize(a),
     window |-> None]

\* ---------------------------------------------------------------- transform
\* Mutant: the type check lets every numeric type through.
AcceptedLabelType_AnyNumber(ty) == ty \in {"int", "int64", "int32", "float"}

AcceptedLabelType(ty) == ~((ty # "int") /\ (ty # "int64"))

SanityError(s) ==
    IF s.mode = "classification" /\ ~s.dummy_label
    THEN IF ~s.label.some THEN "LabelsRequired"
         ELSE IF \E i \in DOMAIN s.label.val : ~AcceptedLabelType(s.label.val[i].ty)
              THEN "FloatLabel"
              ELSE "none"
    ELSE "none"

\* Mutant: the tail is cut whenever labels are absent, the dummy flag ignored.
End_IgnoresDummy(s) ==
    IF ~s.label.some
    THEN Len(s.data[1]) - s.output_size.v
    ELSE Len(s.data[1])

\* Mutant: the tail is cut from the window a previous call left behind.
End_FromStoredWindow(s) ==
    LET base == IF s.window.some THEN s.window.val ELSE Len(s.data[1])
    IN  IF ~s.label.some /\ ~s.dummy_label THEN base - s.output_size.v ELSE base

End(s) ==
    IF ~s.label.some /\ ~s.dummy_label
    THEN Len(s.data[1]) - s.output_size.v
    ELSE Len(s.data[1])

BuildSeq(s, end) ==
    [i \in 1..Len(s.data) |-> Normalize(s.param.normalizer, SliceTo(s.data[i], end))]

BuildLabel(s, end) ==
    IF ~s.dummy_label
    THEN IF s.label.some THEN s.label.val
         ELSE [i \in 1..Len(s.data) |-> SliceFrom(s.data[i], end)]
    ELSE [i \in 1..Len(s.data) |-> -1]

Raise(e) ==
    [kind |-> "raise", err |-> e, seq |-> <<>>, label |-> <<>>,
     output_size |-> PyInt(0), window |-> 0, batched |-> FALSE]

Transform(s) ==
    IF SanityError(s) # "none" THEN Raise(SanityError(s))
    ELSE IF Len(s.data) = 0 THEN Raise("IndexError")
    ELSE LET end == End(s)
             seq == BuildSeq(s, end)
             label == BuildLabel(s, end)
         IN  IF Len(label) # Len(seq) THEN Raise("CountMismatch")
             ELSE IF \E i \in DOMAIN seq : ReshapeFails(seq[i], end) THEN Raise("Reshape")
             ELSE [kind |-> "ok", err |-> "none",
                   seq |-> [i \in DOMAIN seq |-> Reshape(seq[i])],
                   label |-> label, output_size |-> s.output_size,
                   window |-> end, batched |-> FALSE]

\* Mutant: window is stored only by a call that returns a result.
SelfAfterTransform_OnSuccessOnly(s) ==
    IF Transform(s).kind = "ok" THEN [s EXCEPT !.window = Some(End(s))] ELSE s

\* The instance after a call of transform(): self.window = end, once line 96 is reached.
SelfAfterTransform(s) ==
    IF SanityError(s) # "none" \/ Len(s.data) = 0 THEN s
    ELSE [s EXCEPT !.window = Some(End(s))]

\* ---------------------------------------------------------------- state machine
Init ==
    /\ args \in [param : Params, data : DataSets, label : LabelArgs, dummy_label : BOOLEAN]
    /\ pc = "new"
    /\ self = NoInstance
    /\ calls = <<>>

Construct ==
    /\ pc = "new"
    /\ IF InitRaises(args)
       THEN pc' = "ctor_raised" /\ self' = self
       ELSE pc' = "ready" /\ self' = NewInstance(args)
    /\ UNCHANGED <<args, calls>>

CallTransform ==
    /\ pc = "ready"
    /\ Len(calls) < MaxCalls
    /\ calls' = Append(calls, Transform(self))
    /\ self' = SelfAfterTransform(self)
    /\ UNCHANGED <<args, pc>>

Next == Construct \/ CallTransform

Spec == Init /\ [][Next]_vars

\* ---------------------------------------------------------------- vocabulary of the claims
\* The failures transform() raises itself (ValueError with a message of its own).
ValidationErrors == {"LabelsRequired", "FloatLabel", "CountMismatch"}

IntegerTypes == {"int", "int32", "int64"}

Constructed == pc = "ready"

\* The last n values of a series, in order (values[-n:]).
LastN(values, n) ==
    IF n <= Len(values) THEN SubSeq(values, Len(values) - n + 1, Len(values)) ELSE values

\* The window the specification gives for the constructor's arguments.
FullLength == Len(args.data[1])

\* ---------------------------------------------------------------- C1
\* C1: in regression mode with no labels and dummy=false, every result returned
\* by transform() has window = (length of the first series) - output_size, and
\* label[i] is exactly the last output_size values of series i, in order.
C1_TailLabels ==
    (Constructed /\ args.param.mode = "regression" /\ ~args.label.some /\ ~args.dummy_label) =>
        \A k \in DOMAIN calls :
            calls[k].kind = "ok" =>
                /\ calls[k].window = FullLength - calls[k].output_size.v
                /\ calls[k].output_size.v = args.param.training_output_size
                /\ \A i \in DOMAIN args.data :
                       /\ Len(calls[k].label[i]) = calls[k].output_size.v
                       /\ calls[k].label[i] = LastN(args.data[i], calls[k].output_size.v)

\* ---------------------------------------------------------------- C2
\* C2: in classification mode with labels provided and dummy=false, output_size
\* equals max(labels) + 1, and if any label is a floating-point value then every
\* call of transform() raises a validation error and returns no result.
C2_OutputSizeAndFloat ==
    (Constructed /\ args.param.mode = "classification" /\ args.label.some /\ ~args.dummy_label) =>
        /\ \E i \in DOMAIN args.label.val : self.output_size.v = args.label.val[i].v + 1
        /\ \A i \in DOMAIN args.label.val : self.output_size.v >= args.label.val[i].v + 1
        /\ (\E i \in DOMAIN args.label.val : args.label.val[i].ty = "float") =>
               \A k \in DOMAIN calls :
                   calls[k].kind = "raise" /\ calls[k].err \in ValidationErrors

C2_Witness ==
    /\ Constructed /\ args.param.mode = "classification" /\ ~args.dummy_label
    /\ args.label.some /\ Len(args.label.val) = 2 /\ Len(args.data) = 2
    /\ args.label.val[1].ty = "int64" /\ args.label.val[2].ty = "float"
    /\ self.output_size.v = 3
    /\ Len(calls) = 1 /\ calls[1].err = "FloatLabel"

\* ---------------------------------------------------------------- C3
\* C3: with dummy=true, in every mode and whatever labels were provided, every
\* result of transform() has one label per input series, every label is -1, and
\* window is the full length of the first series.
C3_Dummy ==
    (Constructed /\ args.dummy_label) =>
        \A k \in DOMAIN calls :
            calls[k].kind = "ok" =>
                /\ Len(calls[k].label) = Len(args.data)
                /\ \A i \in DOMAIN calls[k].label : calls[k].label[i] = -1
                /\ calls[k].window = FullLength

C3_Witness ==
    /\ Constructed /\ args.dummy_label /\ args.param.mode = "classification"
    /\ args.label.some /\ Len(args.label.val) = 1 /\ args.label.val[1].ty = "float"
    /\ Len(args.data) = 2 /\ FullLength = 2
    /\ Len(calls) = 1 /\ calls[1].kind = "ok" /\ calls[1].label = <<-1, -1>>

\* ---------------------------------------------------------------- C4
\* C4: with dummy=false and a provided label list whose length differs from the
\* number of input series, transform() raises a validation error and returns no
\* result, in both modes.
C4_CountMismatch ==
    (Constructed /\ ~args.dummy_label /\ args.label.some
       /\ Len(args.label.val) # Len(args.data)) =>
        \A k \in DOMAIN calls :
            calls[k].kind = "raise" /\ calls[k].err \in ValidationErrors

\* ---------------------------------------------------------------- C5
\* C5: transform() is idempotent: every call on the same instance has the same
\* outcome, the same error or a result with identical seq, label, output_size,
\* window and batched.
C5_Idempotent ==
    \A j, k \in DOMAIN calls : calls[j] = calls[k]

C5_Witness ==
    /\ Len(calls) = 2 /\ calls[1].kind = "ok" /\ calls[2].kind = "ok"
    /\ ~args.label.some /\ ~args.dummy_label /\ Len(args.data) = 2
    /\ args.param.normalizer = "shift"
    /\ calls[2].window = 1 /\ FullLength = 2

\* ---------------------------------------------------------------- C6
\* C6: in classification mode with dummy=false and one label per series, if every
\* label is of an integer type (native, 32-bit or 64-bit) then transform() raises
\* no validation error and returns the provided labels unchanged, in order.
C6_IntegerLabelsAccepted ==
    (Constructed /\ args.param.mode = "classification" /\ ~args.dummy_label
       /\ args.label.some /\ Len(args.label.val) = Len(args.data)
       /\ \A i \in DOMAIN args.label.val : args.label.val[i].ty \in IntegerTypes) =>
        \A k \in DOMAIN calls :
            /\ calls[k].err \notin ValidationErrors
            /\ calls[k].kind = "ok" => calls[k].label = args.label.val

\* ---------------------------------------------------------------- C7
\* C7: constructing a Preprocessor never fails, for every mode, label list
\* (an empty one included) and dummy flag.
C7_ConstructorNeverFails ==
    pc # "ctor_raised"

\* ---------------------------------------------------------------- C8
\* C8: in every result returned by transform(), the number of seq elements, the
\* number of labels and the number of input series are equal, window is a
\* non-negative integer, and every seq element holds exactly window timesteps.
C8_ResultShape ==
    \A k \in DOMAIN calls :
        calls[k].kind = "ok" =>
            /\ Len(calls[k].seq) = Len(args.data)
            /\ Len(calls[k].label) = Len(args.data)
            /\ calls[k].window >= 0
            /\ \A i \in DOMAIN calls[k].seq :
                   /\ Len(calls[k].seq[i]) = calls[k].window
                   /\ \A t \in DOMAIN calls[k].seq[i] : Len(calls[k].seq[i][t]) = 1

\* ---------------------------------------------------------------- C9
\* C9: when the label checks pass and some input series has a length different
\* from the first series' length, transform() fails on the reshape and returns
\* no result.
C9_LengthMismatchRejected ==
    (Constructed /\ \E i \in DOMAIN args.data : Len(args.data[i]) # FullLength) =>
        \A k \in DOMAIN calls :
            calls[k].err \notin ValidationErrors =>
                calls[k].kind = "raise" /\ calls[k].err = "Reshape"

\* ---------------------------------------------------------------- C10
\* C10: transform() never modifies the input series, the provided labels, the
\* configuration, the dummy flag or output_size, whether it returns or raises;
\* the only field it writes is window, and it writes it also on a call that
\* then fails with a count mismatch or on the reshape.
C10_Frame ==
    [][ (Constructed /\ calls' # calls) =>
          /\ args' = args
          /\ self' = [self EXCEPT !.window = self'.window]
          /\ self'.data = args.data /\ self'.label = args.label
          /\ self'.param = args.param /\ self'.dummy_label = args.dummy_label
          /\ (calls'[Len(calls')].err \in {"CountMismatch", "Reshape"}) =>
                 /\ self'.window.some
                 /\ self'.window.val =
                        (IF ~args.label.some /\ ~args.dummy_label
                         THEN FullLength - args.param.training_output_size
                         ELSE FullLength)
      ]_vars

C10_Witness ==
    /\ Len(calls) = 1 /\ calls[1].err = "CountMismatch"
    /\ self.window = Some(2) /\ self.data = args.data /\ Len(args.data) = 2
    /\ args.label.some /\ Len(args.label.val) = 1

====
